---- MODULE Spec2Model ----
(***************************************************************************)
(* Model of the skip list container of include/skiplist.hpp (class         *)
(* SkipList and its const_iterator).  Nodes live in a heap addressed by    *)
(* integers; a pointer is an address, NULL is 0.  C++ vectors are indexed  *)
(* from 0, TLA+ sequences from 1: element i of a vector v is v[i + 1].     *)
(***************************************************************************)
EXTENDS Integers, Sequences, FiniteSets, TLC

\* ------------------------------------------------------------------------
\* Bounds of the model
\* ------------------------------------------------------------------------

\* keys offered to insert and find are 1..MaxKey
MaxKey == 3
\* the injected distribution returns a number in 0..MaxDraw
MaxDraw == 1
\* the payloads a caller stores in a map are 1..MaxPayload
MaxPayload == 2

\* with two containers: the keys offered are 1..MaxCopyKey, and the calls
\* made once the second container is constructed are at most MaxCalls
MaxCopyKey == 2
MaxCalls == 3

\* Skiplist::max_level of skiplist.hpp, the cap of the older header
MaxLevel == 32

Keys == 1 .. MaxKey
CopyKeys == 1 .. MaxCopyKey
Draws == 0 .. MaxDraw
Payloads == 1 .. MaxPayload
\* T(), the value-initialised payload; it is also the payload of the
\* elements of a set, which carry none
DefaultPayload == 0

\* ------------------------------------------------------------------------
\* Addresses
\* ------------------------------------------------------------------------

NULL == 0
\* addresses the element allocator hands out; each of the two containers
\* of the model holds at most one element per key
ElemAddrs == 1 .. 2 * MaxKey
\* xinit: block_ = nallocator_.allocate(2); head_ = block_; end_ = block_ + 1
block_ == 0 - 2
HeadAddr == block_
EndAddr == block_ + 1
\* the block nallocator_.allocate(2) returns to the second container
OtherBlock == 0 - 4
NodeAddrs == ElemAddrs \cup {HeadAddr, EndAddr, OtherBlock, OtherBlock + 1}

VARIABLES
    next,       \* Node::next of every node: the tower of forward pointers
    previous,   \* Node::previous of every node
    value,      \* Element::value (the key; value.first for a map)
    mapped,     \* value.second of the element of a map
    alive,      \* element addresses allocated and not yet destroyed
    blocks,     \* sentinel addresses allocated and not yet released
    head_,      \* SkipList::head_
    end_,       \* SkipList::end_
    tail_,      \* SkipList::tail_
    size_,      \* SkipList::size_
    update_,    \* SkipList::update_, the scratch vector of predecessors
    other,      \* a second container object: whether it is constructed,
                \* its data members, and the calls made since construction
    it,         \* the node pointer of an iterator the caller holds
    itKey,      \* the key of the element `it` referred to when it was obtained
    op,         \* the last call and what it returned
    status      \* "running", "crashed" after a fault stopped the program,
                \* or "aborted" after a failed assertion stopped it

vars == <<next, previous, value, mapped, alive, blocks, head_, end_, tail_,
          size_, update_, other, it, itKey, op, status>>

\* the container and its heap as one record, the argument of the operators
\* that model the member functions
Cur ==
    [next |-> next, previous |-> previous, value |-> value,
     mapped |-> mapped, alive |-> alive, blocks |-> blocks,
     head_ |-> head_, end_ |-> end_, tail_ |-> tail_, size_ |-> size_,
     update_ |-> update_]

\* the second container with the heap, in the same form
Oth ==
    [next |-> next, previous |-> previous, value |-> value,
     mapped |-> mapped, alive |-> alive, blocks |-> blocks,
     head_ |-> other.head_, end_ |-> other.end_, tail_ |-> other.tail_,
     size_ |-> other.size_, update_ |-> other.update_]

\* the data members of record m
Members(m) ==
    [head_ |-> m.head_, end_ |-> m.end_, tail_ |-> m.tail_,
     size_ |-> m.size_, update_ |-> m.update_]

\* the data members the move constructor leaves in its argument
MovedFrom ==
    [head_ |-> NULL, end_ |-> NULL, tail_ |-> NULL, size_ |-> 0,
     update_ |-> <<>>]

\* record m with the data members mem
WithMembers(m, mem) ==
    [m EXCEPT !.head_ = mem.head_, !.end_ = mem.end_, !.tail_ = mem.tail_,
              !.size_ = mem.size_, !.update_ = mem.update_]

\* the variable other while the second object has not been constructed
NoObject ==
    [exists |-> FALSE, calls |-> 0, head_ |-> NULL, end_ |-> NULL,
     tail_ |-> NULL, size_ |-> 0, update_ |-> <<>>]

\* the variable other once the second object has the data members of m and
\* n calls were made since it was constructed
Object(m, n) ==
    [exists |-> TRUE, calls |-> n, head_ |-> m.head_, end_ |-> m.end_,
     tail_ |-> m.tail_, size_ |-> m.size_, update_ |-> m.update_]

\* ------------------------------------------------------------------------
\* Helpers for vectors and the comparator
\* ------------------------------------------------------------------------

\* std::vector::resize(n): truncate, or pad with value-initialised (NULL)
\* entries
Resize(v, n) == [i \in 1 .. n |-> IF i <= Len(v) THEN v[i] ELSE NULL]

\* std::greater<Key> in the place of std::less<Key>
compare_greater(a, b) == a > b

\* std::less<Key>
compare_(a, b) == a < b

\* SkipList::xequal
xequal(lhs, rhs) == ~compare_(lhs, rhs) /\ ~compare_(rhs, lhs)

\* SkipList::next_level: distribution_(engine_) + 1
next_level(draw) == draw + 1

\* ------------------------------------------------------------------------
\* Iterator protocol (const_iterator)
\* ------------------------------------------------------------------------

\* memory a pointer may be followed into: the two sentinels and the
\* elements that are allocated
Live(m, n) == n \in m.blocks \/ n \in m.alive

\* SkipList::xbegin
xbegin(m) == IF m.size_ = 0 THEN m.end_ ELSE m.head_

\* operator++ without the test for the last element
IterIncNoTailTest(m, n) == m.next[n][1]

\* const_iterator::operator++ on an iterator whose node pointer is n
IterInc(m, n) ==
    IF n = m.previous[m.tail_] THEN m.end_ ELSE m.next[n][1]

\* operator-- without the test for end()
IterDecNoEndTest(m, n) == m.previous[n]

\* const_iterator::operator-- on an iterator whose node pointer is n
IterDec(m, n) ==
    IF n = m.end_ THEN m.previous[m.previous[n]] ELSE m.previous[n]

\* const_iterator::operator* can be evaluated without a fault: the node
\* pointer and the forward pointer it reads both name live memory
Dereferenceable(m, n) ==
    /\ n # NULL
    /\ Live(m, n)
    /\ m.next[n] # <<>>
    /\ m.next[n][1] # NULL
    /\ m.next[n][1] \in m.alive

\* const_iterator::operator*: node->next.front()->value
Deref(m, n) == m.value[m.next[n][1]]

\* the node pointers of the iterators from n up to end() that can be
\* dereferenced
RECURSIVE PositionsFrom(_, _, _)
PositionsFrom(m, n, fuel) ==
    IF n = m.end_ \/ fuel = 0 \/ ~Dereferenceable(m, n) THEN {}
    ELSE {n} \cup PositionsFrom(m, IterInc(m, n), fuel - 1)

\* the iterators of container m other than end(): what erase accepts
\* (where.parent == this, where != end())
Positions(m) == PositionsFrom(m, xbegin(m), Cardinality(ElemAddrs) + 1)

\* SkipList::front: *begin(); -1 stands for a read that is not defined
front(m) ==
    IF Dereferenceable(m, xbegin(m)) THEN Deref(m, xbegin(m)) ELSE 0 - 1

\* back() that reads the value of tail_->previous itself
BackOfPrevious(m) ==
    IF m.tail_ # NULL /\ Live(m, m.tail_) /\ m.previous[m.tail_] \in m.alive
    THEN m.value[m.previous[m.tail_]] ELSE 0 - 1

\* SkipList::back: tail_->previous->next.front()->value
back(m) ==
    IF /\ m.tail_ # NULL
       /\ Live(m, m.tail_)
       /\ Dereferenceable(m, m.previous[m.tail_])
    THEN Deref(m, m.previous[m.tail_]) ELSE 0 - 1

\* ------------------------------------------------------------------------
\* Lookup
\* ------------------------------------------------------------------------

\* the descent of xfind stepping over a node whose key equals the target
RECURSIVE XFindDescendOvershoot(_, _, _, _)
XFindDescendOvershoot(m, key, node, level) ==
    IF level < 0 THEN node
    ELSE LET nextNode == m.next[node][level + 1] IN
         IF nextNode # NULL /\ ~compare_(key, m.value[nextNode])
         THEN XFindDescendOvershoot(m, key, nextNode, level)
         ELSE XFindDescendOvershoot(m, key, node, level - 1)

\* the descent of xfind: the loop over the levels and the inner while loop
RECURSIVE XFindDescend(_, _, _, _)
XFindDescend(m, key, node, level) ==
    IF level < 0 THEN node
    ELSE LET nextNode == m.next[node][level + 1] IN
         IF nextNode # NULL /\ compare_(m.value[nextNode], key)
         THEN XFindDescend(m, key, nextNode, level)
         ELSE XFindDescend(m, key, node, level - 1)

\* SkipList::xfind.  The result carries the node the descent stopped at and
\* whether the final test read the value of a null forward pointer
\* (node->next.front()->value with node->next.front() == NULL).
xfind(m, key) ==
    LET node == XFindDescend(m, key, m.head_, Len(m.next[m.head_]) - 1) IN
    IF m.next[node] # <<>>
    THEN IF m.next[node][1] = NULL
         THEN [node |-> node, ub |-> TRUE]
         ELSE IF xequal(m.value[m.next[node][1]], key)
              THEN [node |-> node, ub |-> FALSE]
              ELSE [node |-> m.end_, ub |-> FALSE]
    ELSE [node |-> m.end_, ub |-> FALSE]

\* std::distance(first, last): the number of increments that take the
\* iterator first to last
RECURSIVE Distance(_, _, _, _)
Distance(m, first, last, fuel) ==
    IF first = last \/ fuel = 0 THEN 0
    ELSE 1 + Distance(m, IterInc(m, first), last, fuel - 1)

\* SkipList::count: std::distance over equal_range(key), which is
\* (lower_bound(key), upper_bound(key)) = (find(key), ++find(key)).
\* fault tells what stops the call: "null" when xfind reads the value of a
\* null forward pointer, "end" when upper_bound increments end(), which
\* operator++ forbids.
CountOf(m, key) ==
    LET f == xfind(m, key) IN
    IF f.ub THEN [n |-> 0, fault |-> "null"]
    ELSE IF f.node = m.end_ THEN [n |-> 0, fault |-> "end"]
    ELSE [n |-> Distance(m, f.node, IterInc(m, f.node),
                         Cardinality(ElemAddrs) + 1),
          fault |-> "none"]

\* SkipList::lower_bound: find(key)
lower_bound(m, key) == xfind(m, key)

\* SkipList::upper_bound: the iterator of lower_bound(key), incremented.
\* fault tells what stops the call: "null" when xfind reads the value of a
\* null forward pointer, "end" when the iterator that is incremented is
\* end(), which operator++ forbids.
upper_bound(m, key) ==
    LET f == lower_bound(m, key) IN
    IF f.ub THEN [node |-> f.node, fault |-> "null"]
    ELSE IF f.node = m.end_ THEN [node |-> f.node, fault |-> "end"]
    ELSE [node |-> IterInc(m, f.node), fault |-> "none"]

\* SkipList::equal_range: the pair (lower_bound(key), upper_bound(key))
equal_range(m, key) ==
    [first |-> lower_bound(m, key).node,
     second |-> upper_bound(m, key).node,
     fault |-> upper_bound(m, key).fault]

\* ------------------------------------------------------------------------
\* Insertion
\* ------------------------------------------------------------------------

\* the descent of xinsert with the comparison the wrong way round
RECURSIVE XInsertDescendInverted(_, _, _, _, _)
XInsertDescendInverted(m, key, currentNode, i, upd) ==
    IF i < 0 THEN [node |-> currentNode, update |-> upd]
    ELSE LET nextNode == m.next[currentNode][i + 1] IN
         IF nextNode = NULL \/ compare_(m.value[nextNode], key)
         THEN XInsertDescendInverted(m, key, currentNode, i - 1,
                                     [upd EXCEPT ![i + 1] = currentNode])
         ELSE XInsertDescendInverted(m, key, nextNode, i, upd)

\* the descent of xinsert, recording update_[i] for every level
RECURSIVE XInsertDescend(_, _, _, _, _)
XInsertDescend(m, key, currentNode, i, upd) ==
    IF i < 0 THEN [node |-> currentNode, update |-> upd]
    ELSE LET nextNode == m.next[currentNode][i + 1] IN
         IF nextNode = NULL \/ ~compare_(m.value[nextNode], key)
         THEN XInsertDescend(m, key, currentNode, i - 1,
                             [upd EXCEPT ![i + 1] = currentNode])
         ELSE XInsertDescend(m, key, nextNode, i, upd)

\* "Adjust the number of nodes in the header": update_[i] = head_ for the
\* levels the head does not have yet
HeaderUpdate(upd, head, oldSize, level) ==
    [i \in 1 .. level |-> IF i > oldSize THEN head ELSE upd[i]]

\* "Perform the actual insertion": the loop that links the new node
RECURSIVE Splice(_, _, _, _, _)
Splice(nx, upd, node, i, level) ==
    IF i = level THEN nx
    ELSE LET successor == nx[upd[i + 1]][i + 1] IN
         Splice([[nx EXCEPT ![node] = Append(@, successor)]
                     EXCEPT ![upd[i + 1]][i + 1] = node],
                upd, node, i + 1, level)

\* the address eallocator_.allocate(1) returns in xconstruct: the lowest
\* free one
xconstruct(m) ==
    CHOOSE a \in ElemAddrs \ m.alive :
        \A b \in ElemAddrs \ m.alive : a <= b

\* a duplicate test that never recognises the key
KeyExistsNever(m, currentNode, key) == FALSE

\* the test of xinsert for "Key already exists": the level-0 successor of
\* the node the descent stopped at carries the key
KeyExists(m, currentNode, key) ==
    /\ m.next[currentNode] # <<>>
    /\ m.next[currentNode][1] # NULL
    /\ xequal(m.value[m.next[currentNode][1]], key)

\* the iterator xinsert returns when the key already exists
XInsertExisting(currentNode, valueNode) == valueNode

\* an iterator to a new element that holds the element itself
XInsertNewSelf(node, prev) == node

\* the iterator xinsert returns for a new node: result.node = node->previous
XInsertNew(node, prev) == prev

\* the descent of xinsert starting at the node of the hint when its tower
\* is as tall as that of the head
XInsertStartAtHint(m, where) ==
    IF /\ m.next[m.head_] # <<>>
       /\ Len(m.next[where]) >= Len(m.next[m.head_])
    THEN where ELSE m.head_

\* the node the descent of xinsert(where, value) starts at:
\* Node* currentNode = head_
XInsertStart(m, where) == m.head_

\* SkipList::xinsert(where, value) of the value (key, val) with where.node =
\* where; the assertion on where.parent is XInsertAsserts.  draw is what distribution_(engine_) yields when next_level
\* is called, and draws counts the calls of next_level, each of which
\* advances the engine once; fails tells whether one of the assertions in
\* the body of xinsert does not hold (currentNode, level > 0, a non-empty
\* tower, only null forward pointers in a node that becomes the last, and
\* node->previous->next.front() == node).
xinsert(m, where, key, val, draw) ==
    LET headSize == Len(m.next[m.head_])
        upd0 == IF Len(m.update_) < headSize
                THEN Resize(m.update_, headSize) ELSE m.update_
        d == XInsertDescend(m, key, XInsertStart(m, where), headSize - 1,
                            upd0)
        currentNode == d.node
        valueNode == IF m.next[currentNode] # <<>>
                     THEN m.next[currentNode][1] ELSE NULL
    IN
    IF KeyExists(m, currentNode, key)
    THEN \* Key already exists
         [m |-> [m EXCEPT !.update_ = d.update],
          node |-> XInsertExisting(currentNode, valueNode),
          inserted |-> FALSE,
          draws |-> 0,
          fails |-> currentNode = NULL]
    ELSE LET level == next_level(draw)
             upd1 == IF level > headSize
                     THEN HeaderUpdate(Resize(d.update, level), m.head_,
                                       headSize, level)
                     ELSE d.update
             nx1 == IF level > headSize
                    THEN [m.next EXCEPT ![m.head_] = Resize(@, level)]
                    ELSE m.next
             node == xconstruct(m)
             nx2 == Splice([nx1 EXCEPT ![node] = <<>>], upd1, node, 0, level)
             succesor == nx2[node][1]
             pv1 == IF succesor # NULL
                    THEN [m.previous EXCEPT ![succesor] = node]
                    ELSE m.previous
             pv2 == [pv1 EXCEPT ![node] = upd1[1]]
             last == m.tail_ = m.head_ \/ pv2[node] = m.tail_
             pv3 == IF last THEN [pv2 EXCEPT ![m.end_] = node] ELSE pv2
         IN
         [m |-> [m EXCEPT !.next = nx2,
                          !.previous = pv3,
                          !.value = [@ EXCEPT ![node] = key],
                          !.mapped = [@ EXCEPT ![node] = val],
                          !.alive = @ \cup {node},
                          !.tail_ = IF last THEN node ELSE @,
                          !.size_ = @ + 1,
                          !.update_ = upd1],
          node |-> XInsertNew(node, pv3[node]),
          inserted |-> TRUE,
          draws |-> 1,
          fails |-> \/ currentNode = NULL
                    \/ ~(level > 0)
                    \/ nx2[node] = <<>>
                    \/ last /\ \E i \in 1 .. Len(nx2[node]) :
                                  nx2[node][i] # NULL
                    \/ nx2[pv3[node]][1] # node]

\* SkipList::xinsert of a key that is not stored when xconstruct throws
\* (eallocator_.allocate or the copy of the value fails): the container as
\* the exception leaves it.  The head tower and update_ have been resized
\* by then; nothing undoes that.
xinsertThrows(m, key, draw) ==
    LET headSize == Len(m.next[m.head_])
        upd0 == IF Len(m.update_) < headSize
                THEN Resize(m.update_, headSize) ELSE m.update_
        d == XInsertDescend(m, key, m.head_, headSize - 1, upd0)
        level == next_level(draw)
    IN
    IF level > headSize
    THEN [m EXCEPT !.update_ = HeaderUpdate(Resize(d.update, level), m.head_,
                                            headSize, level),
                   !.next = [@ EXCEPT ![m.head_] = Resize(@, level)]]
    ELSE [m EXCEPT !.update_ = d.update]

\* ------------------------------------------------------------------------
\* Erasure
\* ------------------------------------------------------------------------

\* the backward walk of erase reads the backward pointer of the head, that
\* is it steps before the head, or it does not end
RECURSIVE WalkLeavesList(_, _, _, _, _)
WalkLeavesList(m, currentNode, i, count, fuel) ==
    IF i = count THEN FALSE
    ELSE IF currentNode = NULL \/ fuel = 0 THEN TRUE
    ELSE IF Len(m.next[currentNode]) <= i
         THEN WalkLeavesList(m, m.previous[currentNode], i, count, fuel - 1)
         ELSE WalkLeavesList(m, currentNode, i + 1, count, fuel)

\* predecessors that are not collected: update_ as the last call left it
CollectPredecessorsStale(m, currentNode, i, count, upd) == upd

\* "Collect node's predecessors"
RECURSIVE CollectPredecessors(_, _, _, _, _)
CollectPredecessors(m, currentNode, i, count, upd) ==
    IF i = count THEN upd
    ELSE IF Len(m.next[currentNode]) <= i
         THEN CollectPredecessors(m, m.previous[currentNode], i, count, upd)
         ELSE CollectPredecessors(m, currentNode, i + 1, count,
                                  [upd EXCEPT ![i + 1] = currentNode])

\* update_[i]->next[i] cannot be read: update_ has no element i, or the
\* node update_[i] names has no level i (a destroyed node has no level)
InvalidRead(nx, upd, i) ==
    \/ Len(upd) <= i
    \/ upd[i + 1] # NULL /\ Len(nx[upd[i + 1]]) <= i

\* the unlink loop of erase reaches a read that is not defined
RECURSIVE UnlinkFaults(_, _, _, _, _)
UnlinkFaults(nx, upd, node, i, n) ==
    IF i = n THEN FALSE
    ELSE IF InvalidRead(nx, upd, i) THEN TRUE
    ELSE IF upd[i + 1] = NULL \/ nx[upd[i + 1]][i + 1] # node
         THEN FALSE
         ELSE UnlinkFaults([nx EXCEPT ![upd[i + 1]][i + 1] = nx[node][i + 1]],
                           upd, node, i + 1, n)

\* an unlink loop that stops after the first level
UnlinkOneLevel(nx, upd, node, i, n) ==
    IF \/ i = n
       \/ InvalidRead(nx, upd, i)
       \/ upd[i + 1] = NULL
       \/ nx[upd[i + 1]][i + 1] # node
    THEN nx
    ELSE [nx EXCEPT ![upd[i + 1]][i + 1] = nx[node][i + 1]]

\* "Let the predecessors point to successors of the node being deleted";
\* a read that is not defined ends the loop when the program survives it
RECURSIVE Unlink(_, _, _, _, _)
Unlink(nx, upd, node, i, n) ==
    IF i = n \/ InvalidRead(nx, upd, i) THEN nx
    ELSE IF upd[i + 1] = NULL \/ nx[upd[i + 1]][i + 1] # node
         THEN nx
         ELSE Unlink([nx EXCEPT ![upd[i + 1]][i + 1] = nx[node][i + 1]],
                     upd, node, i + 1, n)

\* a head tower that is never trimmed
TrimHeadNever(v) == v

\* "Remove all trailing non-null element pointers": drops the trailing
\* NULL entries of the head's tower
RECURSIVE TrimHead(_)
TrimHead(v) ==
    IF v # <<>> /\ v[Len(v)] = NULL
    THEN TrimHead(SubSeq(v, 1, Len(v) - 1))
    ELSE v

\* the iterator erase returns, computed before anything is unlinked
EraseResult(m, node) ==
    IF node = m.tail_ THEN m.end_ ELSE m.next[m.previous[node]][1]

\* SkipList::erase(where), where.node = w.  ub tells whether the unlink loop
\* made a read that is not defined, fails whether one of the assertions in
\* the body does not hold (a non-empty tower of the erased node, and only
\* null forward pointers in the node that becomes the last).
erase(m, w) ==
    LET node == m.next[w][1]
        result == EraseResult(m, node)
        count == Len(m.next[node])
        upd0 == IF Len(m.update_) < count
                THEN Resize(m.update_, count) ELSE m.update_
        upd1 == CollectPredecessors(m, m.previous[node], 0, count, upd0)
        prev == upd1[1]
        nextNode == m.next[node][1]
        pv1 == IF nextNode # NULL
               THEN [m.previous EXCEPT ![nextNode] = prev]
               ELSE m.previous
        nx1 == Unlink(m.next, upd1, node, 0, Len(m.next[m.head_]))
        wasTail == node = m.tail_
        pv2 == IF wasTail THEN [pv1 EXCEPT ![m.end_] = prev] ELSE pv1
        \* xdestroy: the memory of the node is released
        nx2 == [nx1 EXCEPT ![node] = <<>>]
        pv3 == [pv2 EXCEPT ![node] = NULL]
        nx3 == [nx2 EXCEPT ![m.head_] = TrimHead(@)]
    IN
    [m |-> [m EXCEPT !.next = nx3,
                     !.previous = pv3,
                     !.value = [@ EXCEPT ![node] = 0],
                     !.mapped = [@ EXCEPT ![node] = DefaultPayload],
                     !.alive = @ \ {node},
                     !.tail_ = IF wasTail THEN prev ELSE @,
                     !.size_ = @ - 1,
                     !.update_ = upd1],
     node |-> result,
     ub |-> UnlinkFaults(m.next, upd1, node, 0, Len(m.next[m.head_])),
     fails |-> \/ m.next[node] = <<>>
               \/ wasTail /\ \E i \in 1 .. Len(nx1[prev]) :
                                nx1[prev][i] # NULL]

\* ------------------------------------------------------------------------
\* Construction, assignment, swap and comparison
\* ------------------------------------------------------------------------

\* SkipList::xinit with the block nallocator_.allocate(2) returned at blk
xinit(m, blk) ==
    [m EXCEPT !.blocks = @ \cup {blk, blk + 1},
              !.next = [@ EXCEPT ![blk] = <<>>, ![blk + 1] = <<>>],
              !.previous = [@ EXCEPT ![blk] = NULL, ![blk + 1] = blk],
              !.head_ = blk,
              !.end_ = blk + 1,
              !.tail_ = blk,
              !.size_ = 0]

\* the elements of container m in iteration order: node->next.front() of
\* the iterators from n up to end()
RECURSIVE ElementsFrom(_, _, _)
ElementsFrom(m, n, fuel) ==
    IF n = m.end_ \/ fuel = 0 \/ ~Dereferenceable(m, n) THEN <<>>
    ELSE <<m.next[n][1]>> \o ElementsFrom(m, IterInc(m, n), fuel - 1)

\* insert(first, last): one insert per element of the range, in order;
\* draws[i] is what the distribution returns for the i-th of them
RECURSIVE InsertRange(_, _, _, _)
InsertRange(m, elems, draws, i) ==
    IF i > Len(elems) THEN m
    ELSE InsertRange(xinsert(m, m.end_, m.value[elems[i]],
                             m.mapped[elems[i]], draws[i]).m,
                     elems, draws, i + 1)

\* the elements between begin() and end()
Elements(m) == ElementsFrom(m, xbegin(m), Cardinality(ElemAddrs) + 1)

\* a copy constructor that takes over the pointers of its argument
CopyShallow(src, blk, draws) == [src EXCEPT !.update_ = <<>>]

\* SkipList(const SkipList& other): the new object, built at block blk from
\* the container src; update_ starts out empty
CopyOf(src, blk, draws) ==
    InsertRange([xinit(src, blk) EXCEPT !.update_ = <<>>], Elements(src),
                draws, 1)

\* the loop of xclear: destroys the nodes from node back to head_
RECURSIVE XClearLoop(_, _, _)
XClearLoop(m, node, fuel) ==
    IF node = m.head_ \/ node \notin m.alive \/ fuel = 0 THEN m
    ELSE XClearLoop([m EXCEPT !.next = [@ EXCEPT ![node] = <<>>],
                              !.previous = [@ EXCEPT ![node] = NULL],
                              !.value = [@ EXCEPT ![node] = 0],
                              !.mapped = [@ EXCEPT ![node] = DefaultPayload],
                              !.alive = @ \ {node}],
                    m.previous[node], fuel - 1)

\* SkipList::xclear
xclear(m) ==
    IF m.size_ # 0
    THEN [XClearLoop(m, m.tail_, Cardinality(ElemAddrs)) EXCEPT !.size_ = 0]
    ELSE m

\* SkipList::xtidy
xtidy(m) ==
    LET c == xclear(m) IN
    [c EXCEPT !.blocks = @ \ {m.head_, m.end_},
              !.next = [@ EXCEPT ![m.head_] = <<>>, ![m.end_] = <<>>],
              !.previous = [@ EXCEPT ![m.head_] = NULL, ![m.end_] = NULL],
              !.head_ = NULL,
              !.end_ = NULL,
              !.tail_ = NULL,
              !.update_ = <<>>]

\* ~SkipList
Destroy(m) == IF m.head_ # NULL THEN xtidy(m) ELSE m

\* swap that leaves size_ where it was
SwappedKeepSize(x, y) ==
    [x EXCEPT !.head_ = y.head_, !.tail_ = y.tail_, !.end_ = y.end_]

\* SkipList::swap: the members of object x after x.swap(y); update_ is not
\* among the members exchanged
Swapped(x, y) ==
    [x EXCEPT !.size_ = y.size_, !.head_ = y.head_, !.tail_ = y.tail_,
              !.end_ = y.end_]

\* std::equal(first1, last1, first2) that compares no element
StdEqualBlind(lhs, first1, rhs, first2, fuel) == TRUE

\* std::equal(first1, lhs.end(), first2): the two iterators advance in step
RECURSIVE StdEqual(_, _, _, _, _)
StdEqual(lhs, first1, rhs, first2, fuel) ==
    IF first1 = lhs.end_ \/ fuel = 0 THEN TRUE
    ELSE IF Deref(lhs, first1) # Deref(rhs, first2) THEN FALSE
    ELSE StdEqual(lhs, IterInc(lhs, first1), rhs, IterInc(rhs, first2),
                  fuel - 1)

\* operator==(lhs, rhs)
Equal(lhs, rhs) ==
    /\ lhs.size_ = rhs.size_
    /\ StdEqual(lhs, xbegin(lhs), rhs, xbegin(rhs), Cardinality(ElemAddrs) + 1)

\* ------------------------------------------------------------------------
\* The state machine
\* ------------------------------------------------------------------------

\* what a call that returned normally leaves in op
Returned(name, key, node, flag) ==
    [name |-> name, key |-> key, node |-> node, flag |-> flag, ub |-> FALSE,
     val |-> DefaultPayload]

\* xinit, called by the default constructor
Init ==
    /\ next = [n \in NodeAddrs |-> <<>>]
    /\ previous = [n \in NodeAddrs |-> IF n = EndAddr THEN HeadAddr ELSE NULL]
    /\ value = [n \in ElemAddrs |-> 0]
    /\ mapped = [n \in ElemAddrs |-> DefaultPayload]
    /\ alive = {}
    /\ blocks = {HeadAddr, EndAddr}
    /\ other = NoObject
    /\ head_ = HeadAddr
    /\ end_ = EndAddr
    /\ tail_ = HeadAddr
    /\ size_ = 0
    /\ update_ = <<>>
    /\ it = NULL
    /\ itKey = 0
    /\ op = Returned("init", 0, NULL, FALSE)
    /\ status = "running"

\* the container fields and the heap take the values of record m
Store(m) ==
    /\ next' = m.next
    /\ previous' = m.previous
    /\ value' = m.value
    /\ mapped' = m.mapped
    /\ alive' = m.alive
    /\ blocks' = m.blocks
    /\ head_' = m.head_
    /\ end_' = m.end_
    /\ tail_' = m.tail_
    /\ size_' = m.size_
    /\ update_' = m.update_

\* a member function reads head_->next while head_ is NULL (the container
\* was moved from): the program stops
NullHead(name, key) ==
    /\ status' = "crashed"
    /\ op' = [Returned(name, key, NULL, FALSE) EXCEPT !.ub = TRUE]
    /\ UNCHANGED <<next, previous, value, mapped, alive, blocks, head_, end_,
                   tail_, size_, update_, other, it, itKey>>

\* the descent of xinsert and xfind starts at the top forward pointer of
\* the head and reads the value of the node it names; that node has been
\* destroyed
ReadsDestroyed(m) ==
    LET tower == m.next[m.head_] IN
    /\ tower # <<>>
    /\ tower[Len(tower)] # NULL
    /\ tower[Len(tower)] \notin m.alive

\* a member function reads a destroyed node.  The read is undefined; the
\* model records every outcome of it as the program stopping in the call.
UseAfterFree(name, key) ==
    /\ status' = "crashed"
    /\ op' = [Returned(name, key, NULL, FALSE) EXCEPT !.ub = TRUE]
    /\ UNCHANGED <<next, previous, value, mapped, alive, blocks, head_, end_,
                   tail_, size_, update_, other, it, itKey>>

\* insert(value): insert(end(), value), that is xinsert(end(), value)
Insert(key, draw) ==
    /\ status = "running"
    /\ IF head_ = NULL
       THEN NullHead("insert", key)
       ELSE IF ReadsDestroyed(Cur)
       THEN UseAfterFree("insert", key)
       ELSE LET r == xinsert(Cur, end_, key, DefaultPayload, draw) IN
            /\ Store(r.m)
            /\ op' = Returned("insert", key, r.node, r.inserted)
            /\ UNCHANGED <<other, it, itKey, status>>

\* erase(where) for an iterator where that can be dereferenced
Erase(w) ==
    /\ status = "running"
    /\ w \in Positions(Cur)
    /\ LET r == erase(Cur, w) IN
       /\ Store(r.m)
       /\ op' = [Returned("erase", Deref(Cur, w), r.node, FALSE)
                     EXCEPT !.ub = r.ub]
       /\ status' \in IF r.ub THEN {"running", "crashed"} ELSE {"running"}
    /\ UNCHANGED <<other, it, itKey>>

\* it = find(key); the caller keeps the iterator.  Reading the value of a
\* null forward pointer is undefined: the program stops, or the comparison
\* with whatever was read goes either way.
Find(key) ==
    /\ status = "running"
    /\ IF head_ = NULL
       THEN NullHead("find", key)
       ELSE IF ReadsDestroyed(Cur)
       THEN UseAfterFree("find", key)
       ELSE
       /\ LET r == xfind(Cur, key) IN
          IF r.ub
          THEN \/ /\ status' = "crashed"
                  /\ op' = [Returned("find", key, NULL, FALSE)
                                EXCEPT !.ub = TRUE]
                  /\ UNCHANGED <<it, itKey>>
               \/ \E res \in {r.node, end_} :
                    /\ it' = res
                    /\ itKey' = IF res = end_ THEN 0 ELSE key
                    /\ op' = [Returned("find", key, res, res # end_)
                                  EXCEPT !.ub = TRUE]
                    /\ UNCHANGED status
          ELSE /\ it' = r.node
               /\ itKey' = IF r.node = end_ THEN 0 ELSE key
               /\ op' = Returned("find", key, r.node, r.node # end_)
               /\ UNCHANGED status
       /\ UNCHANGED <<next, previous, value, mapped, alive, blocks, head_,
                      end_, tail_, size_, update_, other>>

\* SkipListMap::insert(std::make_pair(key, val))
InsertMap(key, val, draw) ==
    /\ status = "running"
    /\ LET r == xinsert(Cur, end_, key, val, draw) IN
       /\ Store(r.m)
       /\ op' = [Returned("insert", key, r.node, r.inserted)
                     EXCEPT !.val = val]
    /\ UNCHANGED <<other, it, itKey, status>>

\* the caller of operator[] only reads the payload
NoWrite == 0 - 1

\* SkipListMap::operator[](key), followed by an assignment of w through the
\* returned reference unless w = NoWrite.  op.node is the element whose
\* payload the reference names, op.flag tells whether it was inserted and
\* op.val is the payload the element has in the end.  When find reads the
\* value of a null forward pointer the program stops, or goes on with what
\* was read, which then differs from the key.
Index(key, w, draw) ==
    /\ status = "running"
    /\ LET f == xfind(Cur, key)
           r == xinsert(Cur, end_, key, DefaultPayload, draw)
           new == r.m.next[r.node][1]
           Write(mp, e) == IF w = NoWrite THEN mp ELSE [mp EXCEPT ![e] = w]
       IN
       \/ /\ f.ub
          /\ status' = "crashed"
          /\ op' = [Returned("index", key, NULL, FALSE) EXCEPT !.ub = TRUE]
          /\ UNCHANGED <<next, previous, value, mapped, alive, blocks, head_,
                         end_, tail_, size_, update_>>
       \/ /\ ~f.ub
          /\ f.node # end_
          /\ LET e == next[f.node][1] IN
             /\ mapped' = Write(mapped, e)
             /\ op' = [Returned("index", key, e, FALSE)
                           EXCEPT !.val = mapped'[e]]
          /\ UNCHANGED <<next, previous, value, alive, blocks, head_, end_,
                         tail_, size_, update_, status>>
       \/ /\ f.ub \/ f.node = end_
          /\ Store([r.m EXCEPT !.mapped = Write(@, new)])
          /\ op' = [Returned("index", key, new, TRUE)
                        EXCEPT !.val = mapped'[new], !.ub = f.ub]
          /\ UNCHANGED status
    /\ UNCHANGED <<other, it, itKey>>

\* count(key); op.val is the number returned.  Incrementing end() fails the
\* assertion of operator++ in a build with assertions ("aborted") and reads
\* the front of the empty tower of the end sentinel in a build without
\* ("crashed").  After a read through a null pointer in xfind the program
\* stops or goes on with what was read: an equal key makes the range one
\* element long, a different key makes find return end().
Count(key) ==
    /\ status = "running"
    /\ LET c == CountOf(Cur, key) IN
       \/ /\ c.fault = "none"
          /\ op' = [Returned("count", key, NULL, FALSE) EXCEPT !.val = c.n]
          /\ UNCHANGED status
       \/ /\ c.fault = "null"
          /\ op' = [Returned("count", key, NULL, FALSE)
                        EXCEPT !.val = 1, !.ub = TRUE]
          /\ UNCHANGED status
       \/ /\ c.fault # "none"
          /\ status' \in {"aborted", "crashed"}
          /\ c.fault = "null" => status' = "crashed"
          /\ op' = [Returned("count", key, NULL, FALSE) EXCEPT !.ub = TRUE]
    /\ UNCHANGED <<next, previous, value, mapped, alive, blocks, head_, end_,
                   tail_, size_, update_, other, it, itKey>>

\* a call of equal_range(key) on the first container; the record of the call
\* holds the first iterator in node and the second in val.  The faults are
\* those of count: incrementing end() stops the program at the assertion of
\* operator++ or reads the empty tower of the end sentinel, and a read
\* through a null pointer in xfind stops the program.
EqualRange(key) ==
    /\ status = "running"
    /\ LET r == equal_range(Cur, key) IN
       \/ /\ r.fault = "none"
          /\ op' = [Returned("equal_range", key, r.first, FALSE)
                        EXCEPT !.val = r.second]
          /\ UNCHANGED status
       \/ /\ r.fault # "none"
          /\ status' \in {"aborted", "crashed"}
          /\ r.fault = "null" => status' = "crashed"
          /\ op' = [Returned("equal_range", key, r.first, FALSE)
                        EXCEPT !.ub = TRUE]
    /\ UNCHANGED <<next, previous, value, mapped, alive, blocks, head_, end_,
                   tail_, size_, update_, other, it, itKey>>

Next ==
    \/ \E key \in Keys, draw \in Draws : Insert(key, draw)
    \/ \E w \in NodeAddrs : Erase(w)
    \/ \E key \in Keys : Find(key)

Spec == Init /\ [][Next]_vars

\* a SkipListMap<int, int> and its callers
NextMap ==
    \/ \E key \in Keys, val \in Payloads, draw \in Draws :
           InsertMap(key, val, draw)
    \/ \E w \in NodeAddrs : Erase(w)
    \/ \E key \in Keys, w \in Payloads \cup {NoWrite}, draw \in Draws :
           Index(key, w, draw)

SpecMap == Init /\ [][NextMap]_vars

\* a SkipListSet<int> whose caller counts keys
NextCount ==
    \/ \E key \in Keys, draw \in Draws : Insert(key, draw)
    \/ \E w \in NodeAddrs : Erase(w)
    \/ \E key \in Keys : Count(key)

SpecCount == Init /\ [][NextCount]_vars

\* a SkipListSet<int> whose caller asks for the range of a key
NextRange ==
    \/ \E key \in Keys, draw \in Draws : Insert(key, draw)
    \/ \E w \in NodeAddrs : Erase(w)
    \/ \E key \in Keys : EqualRange(key)

SpecRange == Init /\ [][NextRange]_vars

\* clear()
Clear ==
    /\ status = "running"
    /\ Store(xclear(Cur))
    /\ op' = Returned("clear", 0, NULL, FALSE)
    /\ UNCHANGED <<other, it, itKey, status>>

\* a SkipListSet<int> whose caller also clears it
NextClear ==
    \/ \E key \in Keys, draw \in Draws : Insert(key, draw)
    \/ \E w \in NodeAddrs : Erase(w)
    \/ \E key \in Keys : Find(key)
    \/ Clear

SpecClear == Init /\ [][NextClear]_vars

\* insert(key) of a key that is not stored, with an allocator or a copy
\* constructor that throws in xconstruct; the caller catches the exception
InsertFails(key, draw) ==
    /\ status = "running"
    /\ head_ # NULL
    /\ ~ReadsDestroyed(Cur)
    /\ LET headSize == Len(next[head_])
           upd0 == IF Len(update_) < headSize
                   THEN Resize(update_, headSize) ELSE update_
           d == XInsertDescend(Cur, key, head_, headSize - 1, upd0)
       IN ~KeyExists(Cur, d.node, key)
    /\ Store(xinsertThrows(Cur, key, draw))
    /\ op' = Returned("insert.throw", key, NULL, FALSE)
    /\ UNCHANGED <<other, it, itKey, status>>

\* a SkipListSet<int> whose element allocator may fail
NextFail ==
    \/ \E key \in Keys, draw \in Draws : Insert(key, draw)
    \/ \E w \in NodeAddrs : Erase(w)
    \/ \E key \in Keys, draw \in Draws : InsertFails(key, draw)

SpecFail == Init /\ [][NextFail]_vars

\* the container object c names: 1 is the first one, 2 the second
This(c) == IF c = 1 THEN Cur ELSE Oth

\* the variable other after one more call
Tick(o) == IF o.exists THEN [o EXCEPT !.calls = @ + 1] ELSE o

\* the heap and the data members of object c take the values of record m
StoreInto(c, m) ==
    /\ next' = m.next
    /\ previous' = m.previous
    /\ value' = m.value
    /\ mapped' = m.mapped
    /\ alive' = m.alive
    /\ blocks' = m.blocks
    /\ IF c = 1
       THEN /\ head_' = m.head_
            /\ end_' = m.end_
            /\ tail_' = m.tail_
            /\ size_' = m.size_
            /\ update_' = m.update_
            /\ other' = Tick(other)
       ELSE /\ other' = Tick(Object(m, other.calls))
            /\ UNCHANGED <<head_, end_, tail_, size_, update_>>

\* SkipListSet<int> b(a)
CopyConstruct(draws) ==
    /\ status = "running"
    /\ ~other.exists
    /\ LET r == CopyOf(Cur, OtherBlock, draws) IN
       /\ next' = r.next
       /\ previous' = r.previous
       /\ value' = r.value
       /\ mapped' = r.mapped
       /\ alive' = r.alive
       /\ blocks' = r.blocks
       /\ other' = Object(r, 0)
    /\ op' = Returned("copy", 0, NULL, FALSE)
    /\ UNCHANGED <<head_, end_, tail_, size_, update_, it, itKey, status>>

\* what op names a call of member function name on object c
Call(c, name) == IF c = 1 THEN name ELSE "other." \o name

\* a.insert(where, key) for c = 1, b.insert(where, key) for c = 2, with an
\* iterator where of that container whose node pointer is w
InsertWith(c, w, key, draw) ==
    /\ status = "running"
    /\ c = 2 => other.exists
    /\ other.calls < MaxCalls
    /\ IF This(c).head_ = NULL
       THEN NullHead(Call(c, "insert"), key)
       ELSE LET r == xinsert(This(c), w, key, DefaultPayload, draw) IN
            /\ StoreInto(c, r.m)
            /\ op' = Returned(Call(c, "insert"), key, r.node, r.inserted)
            /\ UNCHANGED <<it, itKey, status>>

\* a.insert(key) for c = 1, b.insert(key) for c = 2: insert(end(), key)
InsertInto(c, key, draw) == InsertWith(c, This(c).end_, key, draw)

\* a.erase(where) for c = 1, b.erase(where) for c = 2; where is an iterator
\* of that container that can be dereferenced
EraseFrom(c, w) ==
    /\ status = "running"
    /\ c = 2 => other.exists
    /\ other.calls < MaxCalls
    /\ w \in Positions(This(c))
    /\ LET r == erase(This(c), w) IN
       /\ StoreInto(c, r.m)
       /\ op' = [Returned(Call(c, "erase"), Deref(This(c), w), r.node, FALSE)
                     EXCEPT !.ub = r.ub]
       /\ status' \in IF r.ub THEN {"running", "crashed"} ELSE {"running"}
    /\ UNCHANGED <<it, itKey>>

\* a.swap(b)
Swap ==
    /\ status = "running"
    /\ other.exists
    /\ other.calls < MaxCalls
    /\ LET a == Swapped(Cur, Oth)
           b == Swapped(Oth, Cur)
       IN
       /\ head_' = a.head_
       /\ end_' = a.end_
       /\ tail_' = a.tail_
       /\ size_' = a.size_
       /\ update_' = a.update_
       /\ other' = Tick(Object(b, other.calls))
    /\ op' = Returned("swap", 0, NULL, FALSE)
    /\ UNCHANGED <<next, previous, value, mapped, alive, blocks, it, itKey,
                   status>>

\* two SkipListSet<int>, the second one a copy of the first
NextCopy ==
    \/ \E c \in {1, 2}, key \in CopyKeys, draw \in Draws :
           InsertInto(c, key, draw)
    \/ \E c \in {1, 2}, w \in NodeAddrs : EraseFrom(c, w)
    \/ \E draws \in [1 .. size_ -> Draws] : CopyConstruct(draws)
    \/ Swap

SpecCopy == Init /\ [][NextCopy]_vars

\* a.find(key) != a.end() for c = 1, b.find(key) != b.end() for c = 2; the
\* caller does not keep the iterator.  As in Find, reading the value of a
\* null forward pointer stops the program or lets the comparison go either
\* way.
Contains(c, key) ==
    /\ status = "running"
    /\ c = 2 => other.exists
    /\ other.calls < MaxCalls
    /\ IF This(c).head_ = NULL
       THEN NullHead(Call(c, "find"), key)
       ELSE
       /\ LET r == xfind(This(c), key)
              e == This(c).end_
          IN
          IF r.ub
          THEN \/ /\ status' = "crashed"
                  /\ op' = [Returned(Call(c, "find"), key, NULL, FALSE)
                                EXCEPT !.ub = TRUE]
               \/ \E res \in {r.node, e} :
                    /\ op' = [Returned(Call(c, "find"), key, res, res # e)
                                  EXCEPT !.ub = TRUE]
                    /\ UNCHANGED status
          ELSE /\ op' = Returned(Call(c, "find"), key, r.node, r.node # e)
               /\ UNCHANGED status
       /\ other' = Tick(other)
       /\ UNCHANGED <<next, previous, value, mapped, alive, blocks, head_,
                      end_, tail_, size_, update_, it, itKey>>

\* SkipListSet<int> b(std::move(a)): b takes every data member of a,
\* update_ included, and a is left with null pointers
MoveConstruct ==
    /\ status = "running"
    /\ ~other.exists
    /\ other' = Object(Cur, 0)
    /\ head_' = MovedFrom.head_
    /\ end_' = MovedFrom.end_
    /\ tail_' = MovedFrom.tail_
    /\ size_' = MovedFrom.size_
    /\ update_' = MovedFrom.update_
    /\ op' = Returned("move", 0, NULL, FALSE)
    /\ UNCHANGED <<next, previous, value, mapped, alive, blocks, it, itKey,
                   status>>

\* a = std::move(b), the allocators being equal:
\* SkipList(std::move(b)).swap(a), then the temporary is destroyed
MoveAssign ==
    /\ status = "running"
    /\ other.exists
    /\ other.calls < MaxCalls
    /\ LET tmp == Oth
           a == Swapped(Cur, tmp)
           gone == Destroy(Swapped(tmp, Cur))
       IN
       /\ next' = gone.next
       /\ previous' = gone.previous
       /\ value' = gone.value
       /\ mapped' = gone.mapped
       /\ alive' = gone.alive
       /\ blocks' = gone.blocks
       /\ head_' = a.head_
       /\ end_' = a.end_
       /\ tail_' = a.tail_
       /\ size_' = a.size_
       /\ update_' = a.update_
       /\ other' = Tick(Object(WithMembers(Oth, MovedFrom), other.calls))
    /\ op' = Returned("move=", 0, NULL, FALSE)
    /\ UNCHANGED <<it, itKey, status>>

\* two SkipListSet<int>, the second one copied or moved from the first
NextMove ==
    \/ \E c \in {1, 2}, key \in CopyKeys, draw \in Draws :
           InsertInto(c, key, draw)
    \/ \E c \in {1, 2}, w \in NodeAddrs : EraseFrom(c, w)
    \/ \E c \in {1, 2}, key \in CopyKeys : Contains(c, key)
    \/ \E draws \in [1 .. size_ -> Draws] : CopyConstruct(draws)
    \/ MoveConstruct
    \/ MoveAssign

SpecMove == Init /\ [][NextMove]_vars

\* the container objects that are constructed
Objects == IF other.exists THEN {1, 2} ELSE {1}

\* the iterators a caller can hold on object c: its parent is c and its
\* node pointer is that of begin(), of end(), or of one in between
IteratorsOf(c) ==
    {[parent |-> c, node |-> n] :
        n \in Positions(This(c)) \cup {This(c).end_}}

Iterators == UNION {IteratorsOf(c) : c \in Objects}

\* a failed assertion stops the program before the call does anything
Abort(name) ==
    /\ status' = "aborted"
    /\ op' = Returned(name, 0, NULL, FALSE)
    /\ UNCHANGED <<next, previous, value, mapped, alive, blocks, head_, end_,
                   tail_, size_, update_, other, it, itKey>>

\* a call that no assertion stopped and whose reads are undefined
Undefined(name) ==
    /\ status' = "crashed"
    /\ op' = [Returned(name, 0, NULL, FALSE) EXCEPT !.ub = TRUE]
    /\ UNCHANGED <<next, previous, value, mapped, alive, blocks, head_, end_,
                   tail_, size_, update_, other, it, itKey>>

\* a call that only reads and returns normally
Reads(name, key, node, flag) ==
    /\ op' = Returned(name, key, node, flag)
    /\ UNCHANGED <<next, previous, value, mapped, alive, blocks, head_, end_,
                   tail_, size_, update_, other, it, itKey, status>>

\* const_iterator::operator== fails its assertion
CompareAsserts(i, j) == i.parent # j.parent

\* the assertions of erase that test the parent only
EraseAssertsParentOnly(c, i) == i.parent # c

\* erase(where) on object c fails one of its two assertions
EraseAsserts(c, i) ==
    \/ i.parent # c
    \/ CompareAsserts(i, [parent |-> c, node |-> This(c).end_])
    \/ i.node = This(c).end_

\* xinsert(where, value) on object c fails its assertion
XInsertAsserts(c, i) == i.parent # c

\* const_iterator::operator* fails one of its assertions
DerefAsserts(i) == i.node = NULL \/ This(i.parent).next[i.node] = <<>>

\* const_iterator::operator++ fails one of its assertions
IncAsserts(i) == i.node = This(i.parent).end_ \/ i.node = NULL

\* c.erase(i) for any iterator i the caller holds
EraseAt(c, i) ==
    /\ status = "running"
    /\ IF EraseAsserts(c, i) THEN Abort(Call(c, "erase"))
       ELSE IF i.node \notin Positions(This(c))
       THEN Undefined(Call(c, "erase"))
       ELSE EraseFrom(c, i.node)

\* c.insert(hint, key) for any iterator hint the caller holds
InsertAt(c, hint, key, draw) ==
    /\ status = "running"
    /\ IF XInsertAsserts(c, hint) THEN Abort(Call(c, "insert"))
       ELSE InsertWith(c, hint.node, key, draw)

\* *i for any iterator i the caller holds
DerefAt(i) ==
    /\ status = "running"
    /\ IF DerefAsserts(i) THEN Abort("deref")
       ELSE IF ~Dereferenceable(This(i.parent), i.node)
       THEN Undefined("deref")
       ELSE Reads("deref", Deref(This(i.parent), i.node), i.node, FALSE)

\* ++i for any iterator i the caller holds
IncrementAt(i) ==
    /\ status = "running"
    /\ IF IncAsserts(i) THEN Abort("increment")
       ELSE IF i.node \notin Positions(This(i.parent))
       THEN Undefined("increment")
       ELSE Reads("increment", 0, IterInc(This(i.parent), i.node), FALSE)

\* i == j for any two iterators the caller holds
CompareAt(i, j) ==
    /\ status = "running"
    /\ IF CompareAsserts(i, j) THEN Abort("compare")
       ELSE Reads("compare", 0, NULL, i.node = j.node)

\* a distribution that returns 0 at every draw: every tower has one level
FlatDraws == {0}

\* two SkipListSet<int> and a caller that passes any iterator it holds to
\* any call, in a build with assertions; the assertions test iterators,
\* not towers
NextMisuse ==
    \/ \E c \in Objects, hint \in Iterators, key \in CopyKeys,
          draw \in FlatDraws : InsertAt(c, hint, key, draw)
    \/ \E c \in Objects, i \in Iterators : EraseAt(c, i)
    \/ \E draws \in [1 .. size_ -> FlatDraws] : CopyConstruct(draws)
    \/ \E i \in Iterators : DerefAt(i)
    \/ \E i \in Iterators : IncrementAt(i)
    \/ \E i, j \in Iterators : CompareAt(i, j)

SpecMisuse == Init /\ [][NextMisuse]_vars

\* one SkipListSet<int> whose caller inserts with any iterator of the
\* container as hint
NextHint ==
    \/ \E hint \in IteratorsOf(1), key \in Keys, draw \in Draws :
           InsertAt(1, hint, key, draw)
    \/ \E w \in NodeAddrs : Erase(w)

SpecHint == Init /\ [][NextHint]_vars

\* const_iterator::operator-- fails one of its assertions
DecAsserts(i) ==
    \/ i.node = This(i.parent).head_
    \/ i.node = NULL
    \/ /\ i.node = This(i.parent).end_
       /\ This(i.parent).previous[i.node] = NULL

\* --i for any iterator i the caller holds
DecrementAt(i) ==
    /\ status = "running"
    /\ IF DecAsserts(i) THEN Abort("decrement")
       ELSE Reads("decrement", 0, IterDec(This(i.parent), i.node), FALSE)

\* a SkipListSet<int> and a caller that decrements any iterator it holds,
\* in a build with assertions
NextDecrement ==
    \/ \E key \in Keys, draw \in Draws : Insert(key, draw)
    \/ \E w \in NodeAddrs : Erase(w)
    \/ \E i \in IteratorsOf(1) : DecrementAt(i)

SpecDecrement == Init /\ [][NextDecrement]_vars

\* what a distribution over the non-negative integers may return, as far
\* as the cap of the tower height can tell the numbers apart
TallDraws == {0, MaxLevel - 1, MaxLevel}

\* a SkipListSet<int> with a distribution that returns large numbers
NextLevel ==
    \/ \E key \in Keys, draw \in TallDraws : Insert(key, draw)
    \/ \E w \in NodeAddrs : Erase(w)

SpecLevel == Init /\ [][NextLevel]_vars

\* ------------------------------------------------------------------------
\* Observations used by the properties
\* ------------------------------------------------------------------------

\* the keys of the elements that are stored; all elements belong to the
\* first container as long as the second one has not been constructed
StoredKeys == {value[n] : n \in alive}

\* what a traversal reports when it cannot continue: it would read through
\* a pointer that cannot be dereferenced, or it made more steps than there
\* are element addresses
Fault == 0 - 1

\* for (i = from; i != end(); ++i) yield *i -- the keys seen in order
RECURSIVE ForwardFrom(_, _, _)
ForwardFrom(m, n, fuel) ==
    IF n = m.end_ THEN <<>>
    ELSE IF fuel = 0 \/ ~Dereferenceable(m, n) THEN <<Fault>>
    ELSE <<Deref(m, n)>> \o ForwardFrom(m, IterInc(m, n), fuel - 1)

\* the traversal from begin() to end()
Forward(m) == ForwardFrom(m, xbegin(m), Cardinality(ElemAddrs) + 1)

\* for (r = reverse_iterator(base); r != rend(); ++r) yield *r, where
\* *r is *--copy(base) and ++r is --base
RECURSIVE BackwardFrom(_, _, _)
BackwardFrom(m, base, fuel) ==
    IF base = xbegin(m) THEN <<>>
    ELSE IF fuel = 0 \/ base = NULL \/ ~Live(m, base) \/ base = m.head_
         THEN <<Fault>>
    ELSE LET tmp == IterDec(m, base) IN
         IF ~Dereferenceable(m, tmp) THEN <<Fault>>
         ELSE <<Deref(m, tmp)>> \o BackwardFrom(m, tmp, fuel - 1)

\* the traversal from rbegin() to rend()
Backward(m) == BackwardFrom(m, m.end_, Cardinality(ElemAddrs) + 1)

Reverse(s) == [i \in 1 .. Len(s) |-> s[Len(s) + 1 - i]]

Range(s) == {s[i] : i \in 1 .. Len(s)}

StrictlyIncreasing(s) == \A i \in 1 .. Len(s) - 1 : s[i] < s[i + 1]

\* the least element of a non-empty set of numbers
Least(S) == CHOOSE x \in S : \A y \in S : x <= y

\* the iterator with node pointer n can be dereferenced and yields key k
RefersTo(m, n, k) == Dereferenceable(m, n) /\ Deref(m, n) = k

\* ------------------------------------------------------------------------
\* Properties
\* ------------------------------------------------------------------------

\* C1: after any sequence of insert and erase calls the traversal from
\* begin() to end() terminates and yields strictly increasing keys, and the
\* traversal from rbegin() to rend() yields the same keys in reverse order.
C1_SortedBothWays ==
    /\ Fault \notin Range(Forward(Cur))
    /\ StrictlyIncreasing(Forward(Cur))
    /\ Backward(Cur) = Reverse(Forward(Cur))

\* C1 witness: the middle one of three elements, of which the greatest was
\* inserted first, has been erased
C1_Witness ==
    /\ op.name = "erase" /\ op.key = 2
    /\ value[1] = 3
    /\ Forward(Cur) = <<1, 3>>
    /\ Backward(Cur) = <<3, 1>>

\* C2: size() is the number of steps from begin() to end() and the number
\* of steps from rbegin() to rend().
C2_SizeIsDistance ==
    /\ Fault \notin Range(Forward(Cur)) \cup Range(Backward(Cur))
    /\ size_ = Len(Forward(Cur))
    /\ size_ = Len(Backward(Cur))

\* C2 witness: an erase left two elements
C2_Witness == op.name = "erase" /\ size_ = 2 /\ Len(Backward(Cur)) = 2

\* C3: find(k) of a stored key k returns an iterator other than end() that
\* dereferences to the element with key k.
C3_FindStored ==
    (op.name = "find" /\ op.key \in StoredKeys) =>
        /\ ~op.ub
        /\ status = "running"
        /\ op.node # end_
        /\ it = op.node
        /\ RefersTo(Cur, op.node, op.key)

\* C3 witness: the middle one of three stored keys was found behind a node
\* with a tower of more than one level
C3_Witness ==
    /\ op.name = "find" /\ op.key = 2 /\ StoredKeys = {1, 2, 3}
    /\ op.node \in alive /\ Len(next[op.node]) > 1

\* C4: find(key) of a key that is not stored returns end() and does not
\* read through a null forward pointer.
C4_FindAbsent ==
    (op.name = "find" /\ op.key \notin StoredKeys) =>
        /\ ~op.ub
        /\ status = "running"
        /\ op.node = end_

\* C5: erase(find(k)) decreases size() by exactly 1, and a find(k) that
\* follows it returns end().
C5_EraseThenFind ==
    [][/\ op'.name = "erase" => size_' = size_ - 1
       /\ (op.name = "erase" /\ op'.name = "find" /\ op'.key = op.key) =>
              /\ ~op'.ub
              /\ status' = "running"
              /\ op'.node = end_']_vars

\* C6: erase returns an iterator to the element that followed the removed
\* one (it can be dereferenced and yields the successor's key), or end()
\* when the removed element was the last one.
C6_EraseReturnsSuccessor ==
    op.name = "erase" =>
        LET greater == {k \in StoredKeys : k > op.key} IN
        IF greater = {} THEN op.node = end_
        ELSE RefersTo(Cur, op.node, Least(greater))

\* C7: an iterator that refers to element X still refers to X after an
\* insertion of another key.
C7_IteratorSurvivesInsert ==
    [][(/\ op'.name = "insert"
        /\ op'.key # itKey
        /\ RefersTo(Cur, it, itKey))
       => RefersTo(Cur', it', itKey)]_vars

\* C8: an iterator that refers to element X still refers to X after the
\* erasure of another element.
C8_IteratorSurvivesErase ==
    [][(/\ op'.name = "erase"
        /\ op'.key # itKey
        /\ RefersTo(Cur, it, itKey))
       => RefersTo(Cur', it', itKey)]_vars

\* C9: inserting a key that is already stored leaves size() and the set of
\* nodes unchanged, returns inserted == false and leaves the sequence of
\* keys unchanged.
C9_DuplicateInsert ==
    [][(op'.name = "insert" /\ op'.key \in StoredKeys) =>
          /\ size_' = size_
          /\ alive' = alive
          /\ ~op'.flag
          /\ Forward(Cur') = Forward(Cur)]_vars

\* C9 witness: a key was inserted a second time into a container of two
C9_Witness == op.name = "insert" /\ ~op.flag /\ size_ = 2

\* C10: the iterator returned by insert of a key that is already stored
\* dereferences to the element with that key.
C10_DuplicateInsertIterator ==
    (op.name = "insert" /\ ~op.flag) => RefersTo(Cur, op.node, op.key)

\* the payload stored with key k in the first container
PayloadOf(k) == mapped[CHOOSE n \in alive : value[n] = k]

\* C11: inserting (k, v2) into a map that stores (k, v1) overwrites the
\* payload, so that the element with key k carries v2 afterwards.
C11_MapInsertOverwrites ==
    (op.name = "insert" /\ ~op.flag) => PayloadOf(op.key) = op.val

\* C12: inserting a value whose key is not stored increases size() by
\* exactly 1 and returns (it, true), where it dereferences to the inserted
\* value.
C12_InsertNew ==
    [][(op'.name = "insert" /\ op'.key \notin StoredKeys) =>
          /\ size_' = size_ + 1
          /\ op'.flag
          /\ RefersTo(Cur', op'.node, op'.key)
          /\ mapped'[next'[op'.node][1]] = op'.val]_vars

\* C12 witness: a key was inserted between two stored keys with a tower of
\* more than one level
C12_Witness ==
    /\ op.name = "insert" /\ op.flag /\ op.key = 2 /\ size_ = 3
    /\ Len(next[next[op.node][1]]) > 1

\* C13: operator[](key) returns a reference to the payload stored for key
\* and leaves size() unchanged when key is present; when key is absent it
\* inserts (key, T()), increases size() by exactly 1 and returns a
\* reference to the new payload.
C13_IndexOperator ==
    [][op'.name = "index" =>
          /\ ~op'.ub
          /\ status' = "running"
          /\ op'.node \in alive'
          /\ value'[op'.node] = op'.key
          /\ op'.flag = (op'.key \notin StoredKeys)
          /\ size_' = IF op'.key \in StoredKeys THEN size_ ELSE size_ + 1]_vars

\* C14: count(key) completes and returns 1 when the key is stored and 0
\* when it is not, without violating an iterator precondition.
C14_CountIsMembership ==
    op.name = "count" =>
        /\ status = "running"
        /\ ~op.ub
        /\ op.val = IF op.key \in StoredKeys THEN 1 ELSE 0

\* the greatest element of a non-empty set of numbers
Greatest(S) == CHOOSE x \in S : \A y \in S : y <= x

\* C15: in every non-empty state front() is the element with the smallest
\* stored key and back() the element with the greatest stored key.
C15_FrontBack ==
    size_ > 0 =>
        /\ front(Cur) = Least(StoredKeys)
        /\ back(Cur) = Greatest(StoredKeys)

\* C15 witness: the greatest of three elements has just been erased
C15_Witness ==
    /\ op.name = "erase" /\ op.key = 3
    /\ front(Cur) = 1 /\ back(Cur) = 2

\* C16: erasing the only element returns end() and leaves the empty state:
\* size() == 0, begin() == end(), a head tower of length 0, and the tail
\* reference and the backward pointer of the end sentinel name the head.
C16_EraseOnlyElement ==
    [][(op'.name = "erase" /\ size_ = 1) =>
          /\ op'.node = end_'
          /\ size_' = 0
          /\ xbegin(Cur') = end_'
          /\ next'[head_'] = <<>>
          /\ tail_' = head_'
          /\ previous'[end_'] = head_']_vars

\* C16 witness: the only element, which had a tower of two levels, has been
\* erased
C16_Witness == op.name = "erase" /\ size_ = 0 /\ Len(update_) = 2

\* the nodes of container m: its two sentinels and its elements
Nodes(m) == {m.head_, m.end_} \cup Range(Elements(m))

\* container m has in record mp the size, the iteration sequence and the
\* links it has in record m
Untouched(m, mp) ==
    /\ mp.size_ = m.size_
    /\ Forward(mp) = Forward(m)
    /\ \A n \in Nodes(m) :
          /\ mp.next[n] = m.next[n]
          /\ mp.previous[n] = m.previous[n]

\* C17: a copy-constructed container has the size and the iteration
\* sequence of the original and compares equal to it; the two containers
\* share no node; an insert or erase on the copy leaves the size, the
\* iteration sequence and the links of the original unchanged, and an insert
\* or erase on the original leaves those of the copy unchanged.
C17_CopyIndependent ==
    [][/\ op'.name = "copy" =>
            /\ other'.size_ = size_'
            /\ Forward(Oth') = Forward(Cur')
            /\ Fault \notin Range(Forward(Cur'))
            /\ Equal(Cur', Oth')
       /\ other'.exists => Nodes(Cur') \cap Nodes(Oth') = {}
       /\ op'.name \in {"other.insert", "other.erase"} =>
            Untouched(Cur, Cur')
       /\ other.exists /\ op'.name \in {"insert", "erase"} =>
            Untouched(Oth, Oth')]_vars

\* C17 witness: the original holds 1 and 2, and 1 has been erased from its
\* copy
C17_Witness ==
    /\ op.name = "other.erase" /\ op.key = 1
    /\ Forward(Cur) = <<1, 2>>
    /\ Forward(Oth) = <<2>>

\* size() of container m is the number of steps from begin() to end() and
\* from rbegin() to rend(), and both traversals are free of faults
SizeIsDistance(m) ==
    /\ Fault \notin Range(Forward(m)) \cup Range(Backward(m))
    /\ m.size_ = Len(Forward(m))
    /\ m.size_ = Len(Backward(m))

\* C19: after a.swap(b), a has the size and the iteration sequence b had
\* before the call and b has those a had, and for both containers size() is
\* the distance from begin() to end() and from rbegin() to rend().
C19_SwapExchanges ==
    [][op'.name = "swap" =>
          /\ size_' = other.size_
          /\ other'.size_ = size_
          /\ Forward(Cur') = Forward(Oth)
          /\ Forward(Oth') = Forward(Cur)
          /\ SizeIsDistance(Cur')
          /\ SizeIsDistance(Oth')]_vars

\* C19 witness: a swap gave the first container the two elements of the
\* second and the second the one element of the first
C19_Witness ==
    /\ op.name = "swap"
    /\ size_ = 2 /\ Forward(Cur) = <<1, 2>>
    /\ other.size_ = 1 /\ Forward(Oth) = <<2>>

\* C20: operator== returns true exactly when the two containers have the
\* same size and elementwise equal iteration sequences, whatever the heights
\* of the towers and the order of insertion.
C20_EqualIsSameSequence ==
    other.exists =>
        (Equal(Cur, Oth) <=>
            /\ size_ = other.size_
            /\ Forward(Cur) = Forward(Oth))

\* C20 witness: both containers hold 1 and 2 and compare equal; the first
\* one got 2 before 1 and has a head tower of two levels, the second one
\* got 1 before 2 and has a head tower of one level
C20_Witness ==
    /\ other.exists
    /\ Equal(Cur, Oth)
    /\ Forward(Cur) = <<1, 2>>
    /\ Len(next[head_]) = 2
    /\ Len(next[other.head_]) = 1
    /\ value[next[head_][2]] = 2
    /\ \E n, k \in ElemAddrs :
          /\ n < k
          /\ {n, k} \subseteq Range(Elements(Cur))
          /\ value[n] = 2
          /\ value[k] = 1

\* container m is empty as its caller sees it: size() == 0 and
\* begin() == end()
Empty(m) == m.size_ = 0 /\ xbegin(m) = m.end_

\* C18: after move construction or move assignment the destination holds
\* the former elements of the source and the source is empty; an insert or
\* find that follows on the moved-from container returns normally and
\* leaves it sorted with size() equal to both distances.  The code stops
\* in such an insert or find.
C18_MovedFromReusable ==
    [][/\ op'.name = "move" =>
            /\ Forward(Oth') = Forward(Cur)
            /\ other'.size_ = size_
            /\ Empty(Cur')
       /\ op'.name = "move=" =>
            /\ Forward(Cur') = Forward(Oth)
            /\ size_' = other.size_
            /\ Empty(Oth')
       /\ op.name = "move" /\ op'.name \in {"insert", "find"} =>
            /\ status' = "running"
            /\ ~op'.ub
            /\ SizeIsDistance(Cur')
            /\ StrictlyIncreasing(Forward(Cur'))
       /\ op.name = "move=" /\ op'.name \in {"other.insert", "other.find"} =>
            /\ status' = "running"
            /\ ~op'.ub
            /\ SizeIsDistance(Oth')
            /\ StrictlyIncreasing(Forward(Oth'))]_vars

\* pointer p is null or names a node that is allocated
NotDangling(m, p) == p = NULL \/ Live(m, p)

\* C21: after clear() every element node is destroyed, size() == 0 and
\* begin() == end(), no forward pointer of the head, nor tail_, nor the
\* backward pointer of the end sentinel names a destroyed node, and an
\* insert or find that follows returns normally as on a new container.
\* The code leaves the head tower, tail_ and end_->previous as they were.
C21_ClearResets ==
    [][/\ op'.name = "clear" =>
            /\ alive' = {}
            /\ Empty(Cur')
            /\ \A i \in 1 .. Len(next'[head_']) :
                  NotDangling(Cur', next'[head_'][i])
            /\ NotDangling(Cur', tail_')
            /\ NotDangling(Cur', previous'[end_'])
       /\ op.name = "clear" /\ op'.name \in {"insert", "find"} =>
            /\ status' = "running"
            /\ ~op'.ub
            /\ op'.name = "insert" =>
                  op'.flag /\ Forward(Cur') = <<op'.key>>
            /\ op'.name = "find" => op'.node = end_']_vars

\* C22: an insert whose node allocation or construction fails leaves the
\* container as it was: the length of the head tower, every forward and
\* backward pointer, tail_ and size_ are unchanged and no node is partly
\* spliced.  The code has grown the head tower before it allocates.
C22_FailedInsertNoEffect ==
    [][op'.name = "insert.throw" =>
          /\ Len(next'[head_']) = Len(next[head_])
          /\ next' = next
          /\ previous' = previous
          /\ alive' = alive
          /\ tail_' = tail_
          /\ size_' = size_]_vars

\* the step stops the program at an assertion and changes neither
\* container nor the heap
StoppedByAssertion ==
    /\ status' = "aborted"
    /\ UNCHANGED <<next, previous, value, mapped, alive, blocks, head_, end_,
                   tail_, size_, update_, other>>

\* C23: erasing end(), erasing or inserting with an iterator of another
\* container, dereferencing end(), incrementing end() and comparing
\* iterators of two containers each stop at an assertion before any
\* container state is modified.
C23_MisuseAsserts ==
    [][/\ \A c \in Objects, i \in Iterators :
            (EraseAt(c, i) /\ (i.parent # c \/ i.node = This(c).end_))
                => StoppedByAssertion
       /\ \A c \in Objects, hint \in Iterators, key \in CopyKeys,
             draw \in FlatDraws :
            (InsertAt(c, hint, key, draw) /\ hint.parent # c)
                => StoppedByAssertion
       /\ \A i \in Iterators :
            (DerefAt(i) /\ i.node = This(i.parent).end_)
                => StoppedByAssertion
       /\ \A i \in Iterators :
            (IncrementAt(i) /\ i.node = This(i.parent).end_)
                => StoppedByAssertion
       /\ \A i, j \in Iterators :
            (CompareAt(i, j) /\ i.parent # j.parent)
                => StoppedByAssertion]_vars

\* C23 witness: the program stopped at the assertion of an erase on the
\* second container while the first holds two elements and the second one
C23_Witness ==
    /\ status = "aborted"
    /\ op.name = "other.erase"
    /\ size_ = 2
    /\ other.exists /\ other.size_ = 1

\* C24: decrementing begin() stops at an assertion in every state of the
\* container, empty or not, and never yields an iterator with a null
\* position.  In the empty container begin() is end(), whose decrement
\* passes the assertions and yields the null pointer head_->previous.
C24_DecrementBeginAsserts ==
    [][\A i \in IteratorsOf(1) :
          (DecrementAt(i) /\ i.node = xbegin(Cur)) =>
              /\ StoppedByAssertion
              /\ op'.node # NULL \/ status' = "aborted"]_vars

\* C25: every tower height the leveling policy produces is at least 1 and
\* at most 32 whatever the distribution returns, so that neither an element
\* nor the head has a tower longer than 32.  next_level of
\* include/skiplist.hpp returns the draw plus one without a cap.
C25_TowerHeightCapped ==
    /\ \A draw \in TallDraws :
          next_level(draw) >= 1 /\ next_level(draw) <= MaxLevel
    /\ \A n \in alive : Len(next[n]) >= 1 /\ Len(next[n]) <= MaxLevel
    /\ Len(next[head_]) <= MaxLevel

\* the length of the tallest tower among the element nodes, 0 without any
TallestTower ==
    IF alive = {} THEN 0
    ELSE Greatest({Len(next[n]) : n \in alive})

RECURSIVE ChainFrom(_, _, _, _)
ChainFrom(m, p, l, fuel) ==
    IF p = NULL THEN <<>>
    ELSE IF fuel = 0 \/ Len(m.next[p]) <= l THEN <<NULL>>
    ELSE <<p>> \o ChainFrom(m, m.next[p][l + 1], l, fuel - 1)

\* the chain of level l of container m: head_->next[l] and what follows
LevelChain(m, l) ==
    IF Len(m.next[m.head_]) <= l THEN <<>>
    ELSE ChainFrom(m, m.next[m.head_][l + 1], l, Cardinality(ElemAddrs) + 1)

\* the last node of the level-0 chain, the head when there is none
LastOfChain(m) ==
    LET chain == LevelChain(m, 0) IN
    IF chain = <<>> THEN m.head_ ELSE chain[Len(chain)]

\* C27: after every insert and erase the backward pointer of each element
\* names its predecessor on the level-0 chain, the head for the first one,
\* and tail_ and the backward pointer of the end sentinel name the last
\* element of that chain, the head in the empty container.
C27_BackwardPointers ==
    LET chain == LevelChain(Cur, 0) IN
    /\ Range(chain) = alive
    /\ \A i \in 1 .. Len(chain) :
          previous[chain[i]] = IF i = 1 THEN head_ ELSE chain[i - 1]
    /\ tail_ = LastOfChain(Cur)
    /\ previous[end_] = LastOfChain(Cur)

\* C27 witness: the last of three elements has been erased, so that tail_
\* moved back to the element with key 2
C27_Witness ==
    /\ op.name = "erase" /\ op.key = 3
    /\ size_ = 2
    /\ value[tail_] = 2
    /\ value[previous[tail_]] = 1

\* C28: in every state reached by insert, erase and clear, size_ is the
\* number of element nodes that are allocated and not destroyed and the
\* number of nodes on the level-0 chain, every node of that chain is
\* allocated, and the destructor destroys all remaining element nodes.
\* After clear() of a container with elements the level-0 chain still
\* starts at a destroyed node (C21).
C28_SizeCountsNodes ==
    LET chain == LevelChain(Cur, 0) IN
    /\ size_ = Cardinality(alive)
    /\ size_ = Len(chain)
    /\ Range(chain) = alive
    /\ Destroy(Cur).alive = {}

\* the keys of the nodes of a chain
KeysOf(chain) == [i \in 1 .. Len(chain) |-> value[chain[i]]]

\* sequence a is what is left of sequence b when the members that are not
\* in a are dropped
SubsequenceOf(a, b) == a = SelectSeq(b, LAMBDA x : x \in Range(a))

\* C29: after every insert and erase, on every level the chain that starts
\* at the forward pointer of the head ends at a null pointer without
\* meeting a node twice, is strictly increasing in key and holds exactly
\* the elements whose tower is longer than the level; the chain of a level
\* above 0 is a subsequence of the chain of the level below.
C29_LevelChains ==
    \A l \in 0 .. MaxDraw + 1 :
        LET chain == LevelChain(Cur, l) IN
        /\ NULL \notin Range(chain)
        /\ Cardinality(Range(chain)) = Len(chain)
        /\ StrictlyIncreasing(KeysOf(chain))
        /\ Range(chain) = {n \in alive : Len(next[n]) > l}
        /\ l > 0 => SubsequenceOf(chain, LevelChain(Cur, l - 1))

\* C29 witness: after an erase the level-0 chain holds two elements and
\* the level-1 chain only the second of them, the one with key 3
C29_Witness ==
    /\ op.name = "erase"
    /\ Len(LevelChain(Cur, 0)) = 2
    /\ KeysOf(LevelChain(Cur, 1)) = <<3>>

\* the members of a set of numbers in ascending order: the contents of the
\* abstract sorted set
RECURSIVE SortedSeq(_)
SortedSeq(S) ==
    IF S = {} THEN <<>>
    ELSE <<Least(S)>> \o SortedSeq(S \ {Least(S)})

\* C30: the container refines a sorted set.  It starts empty; an insert
\* makes the iteration sequence the sorted contents of the former keys and
\* the inserted key, whatever the draw and the order of the calls; an erase
\* removes the addressed key and keeps the others in their order; a find
\* changes nothing; and size() is the length of the sequence throughout.
C30_RefinesSortedSet ==
    [][/\ op.name = "init" => Forward(Cur) = <<>> /\ size_ = 0
       /\ size_' = Len(Forward(Cur'))
       /\ op'.name = "insert" =>
             Forward(Cur') = SortedSeq(Range(Forward(Cur)) \cup {op'.key})
       /\ op'.name = "erase" =>
             /\ op'.key \in Range(Forward(Cur))
             /\ Forward(Cur') =
                    SelectSeq(Forward(Cur), LAMBDA k : k # op'.key)
       /\ op'.name = "find" => Forward(Cur') = Forward(Cur)]_vars

\* C30 witness: key 2 was inserted last, between 1 and 3, into a container
\* whose head tower has two levels
C30_Witness ==
    /\ op.name = "insert" /\ op.key = 2 /\ op.flag
    /\ Forward(Cur) = <<1, 2, 3>>
    /\ Len(next[head_]) = 2

\* pointer e is the value of no forward pointer of a node of container m
\* and of no backward pointer of its elements and its end sentinel
Unreferenced(m, e) ==
    /\ \A n \in Nodes(m) : \A i \in 1 .. Len(m.next[n]) : m.next[n][i] # e
    /\ \A n \in Nodes(m) : m.previous[n] # e

\* C31: in erase the backward walk ends without stepping before the head
\* and records, for every level of the erased node, the node whose forward
\* pointer of that level names the erased node; after the call no forward
\* pointer and no backward pointer names the erased node.
C31_EraseWalk ==
    [][op'.name = "erase" =>
          \E e \in alive \ alive' :
              /\ ~WalkLeavesList(Cur, previous[e], 0, Len(next[e]),
                                 Cardinality(ElemAddrs) + 1)
              /\ Len(update_') >= Len(next[e])
              /\ \A i \in 1 .. Len(next[e]) :
                    /\ update_'[i] \in Nodes(Cur)
                    /\ next[update_'[i]][i] = e
              /\ Unreferenced(Cur', e)]_vars

\* C31 witness: an erase of key 2 recorded the element with key 1, a tower
\* of one level, as predecessor of level 0 and left the head recorded for
\* level 1
C31_Witness ==
    /\ op.name = "erase" /\ op.key = 2
    /\ Len(update_) = 2
    /\ update_[1] \in alive /\ value[update_[1]] = 1
    /\ Len(next[update_[1]]) = 1
    /\ update_[2] = head_
    /\ Forward(Cur) = <<1>>

\* C32: for every key equal_range(key) completes without incrementing
\* end() and returns (lower_bound(key), upper_bound(key)) with lower_bound
\* equal to find; for a stored key the range holds exactly that element,
\* for a key that is not stored the range is empty.
C32_EqualRange ==
    op.name = "equal_range" =>
        /\ status = "running"
        /\ ~op.ub
        /\ op.node = xfind(Cur, op.key).node
        /\ IF op.key \in StoredKeys
           THEN /\ Dereferenceable(Cur, op.node)
                /\ Deref(Cur, op.node) = op.key
                /\ op.val = IterInc(Cur, op.node)
           ELSE op.val = op.node

\* the node pointers of all iterators of container m: the positions of its
\* elements and end()
AllIterators(m) == Positions(m) \cup {m.end_}

\* C33: with no mutation in between, incrementing the iterator to an
\* element that is not the last yields the iterator to its level-0
\* successor, incrementing the iterator to the last element yields end(),
\* decrementing end() of a non-empty container yields the iterator to the
\* last element, --(++it) = it for every dereferenceable iterator and
\* ++(--it) = it for every iterator other than begin().
C33_IncrementDecrement ==
    /\ \A n \in Positions(Cur) :
          /\ IF next[n][1] = tail_
             THEN IterInc(Cur, n) = end_
             ELSE /\ IterInc(Cur, n) \in Positions(Cur)
                  /\ next[IterInc(Cur, n)][1] = next[next[n][1]][1]
                  /\ Deref(Cur, IterInc(Cur, n)) > Deref(Cur, n)
                  /\ ~\E k \in StoredKeys :
                        /\ Deref(Cur, n) < k
                        /\ k < Deref(Cur, IterInc(Cur, n))
          /\ IterDec(Cur, IterInc(Cur, n)) = n
    /\ size_ > 0 =>
          /\ IterDec(Cur, end_) \in Positions(Cur)
          /\ next[IterDec(Cur, end_)][1] = tail_
          /\ Deref(Cur, IterDec(Cur, end_)) = Greatest(StoredKeys)
    /\ \A n \in AllIterators(Cur) \ {xbegin(Cur)} :
          IterInc(Cur, IterDec(Cur, n)) = n

\* C33 witness: find returned the iterator to the second of three
\* elements; one increment leads to the last element and a second one to
\* end(), one decrement to begin()
C33_Witness ==
    /\ op.name = "find" /\ size_ = 3
    /\ it \in Positions(Cur) /\ Deref(Cur, it) = 2
    /\ Deref(Cur, IterInc(Cur, it)) = 3
    /\ IterInc(Cur, IterInc(Cur, it)) = end_
    /\ IterDec(Cur, it) = xbegin(Cur)
    /\ IterDec(Cur, end_) = IterInc(Cur, it)

C36_HintHasNoEffect ==
    [][\A hint \in IteratorsOf(1), key \in Keys, draw \in Draws :
            InsertAt(1, hint, key, draw) =>
                LET r == xinsert(Cur, end_, key, DefaultPayload, draw) IN
                /\ status' = "running"
                /\ op'.node = r.node
                /\ op'.flag = r.inserted
                /\ Cur' = r.m]_vars

\* C36 witness: a key between the two stored ones has been inserted with a
\* tower of two levels, with begin(), the position of the second element
\* or end() as hint
C36_Witness ==
    /\ op.name = "insert" /\ op.flag /\ op.key = 2
    /\ status = "running"
    /\ Forward(Cur) = <<1, 2, 3>>
    /\ Len(next[next[op.node][1]]) = 2

\* entry i of update_ is not what erase may read in container m: it lies
\* beyond the buffer, or it is neither null nor a node of m with a level i
ForeignRead(m, upd, i) ==
    \/ Len(upd) <= i
    \/ /\ upd[i + 1] # NULL
       /\ upd[i + 1] \notin Nodes(m) \/ Len(m.next[upd[i + 1]]) <= i

\* the relinking loop of erase, which runs up to the length of the head
\* tower, reads such an entry
RECURSIVE RelinkReadsForeign(_, _, _, _, _, _)
RelinkReadsForeign(m, nx, upd, node, i, n) ==
    IF i = n THEN FALSE
    ELSE IF ForeignRead(m, upd, i) THEN TRUE
    ELSE IF upd[i + 1] = NULL \/ nx[upd[i + 1]][i + 1] # node
         THEN FALSE
         ELSE RelinkReadsForeign(
                  m, [nx EXCEPT ![upd[i + 1]][i + 1] = nx[node][i + 1]],
                  upd, node, i + 1, n)

\* erase(where) with where.node = w on container m reads such an entry
EraseReadsForeign(m, w) ==
    LET node == m.next[w][1]
        count == Len(m.next[node])
        upd0 == IF Len(m.update_) < count
                THEN Resize(m.update_, count) ELSE m.update_
        upd1 == CollectPredecessors(m, m.previous[node], 0, count, upd0)
    IN RelinkReadsForeign(m, m.next, upd1, node, 0, Len(m.next[m.head_]))

\* C37: in every state reached by insert, erase, swap and copies, on either
\* container, an erase of any element reads only entries of update_ that
\* lie within the buffer and are null or name a node of the same container
\* whose tower covers the index read.
C37_UpdateReads ==
    \A c \in Objects :
        status = "running" =>
            \A w \in Positions(This(c)) : ~EraseReadsForeign(This(c), w)

====
